---- MODULE Spec2Model ----
(***************************************************************************)
(* The Raspberry Pi gateway of the tomato farm (src/rasperrypi.py) as a    *)
(* state machine.  Two threads share the SystemState object:               *)
(*   - the paho-mqtt network thread (client.loop_start), which runs        *)
(*     on_mqtt_message, and auto_control inside it, one message at a time; *)
(*   - a Flask request thread (app.run(threaded=True)) running             *)
(*     control_endpoint or mode_endpoint.                                  *)
(* Nothing in the source locks the shared state, so the threads interleave *)
(* between statements that read or write it: each such statement (or run   *)
(* of statements touching thread-local data only) is one action.           *)
(***************************************************************************)
EXTENDS Integers, Sequences, FiniteSets, TLC

\* ---------------------------------------------------------------- constants
MODE_MANUAL == "manual"
MODE_AUTO   == "auto"
MODE_HYBRID == "hybrid"
Modes       == {MODE_MANUAL, MODE_AUTO, MODE_HYBRID}

SOIL_MOISTURE_THRESHOLD == 30
TEMP_THRESHOLD          == 30
LIGHT_THRESHOLD         == 40
WATERING_COOLDOWN       == 30
\* time.sleep(2) in auto_control
WATER_SECONDS           == 2

Actuators    == {"pump", "fan", "light"}
\* the keys of topic_map in send_command
topic_map    == [a \in Actuators |-> a]
SensorFields == {"temp", "humidity", "soil_temp", "moisture", "light"}

\* Python's None, and a present value v
None    == <<>>
Some(v) == <<v>>
Val(x)  == x[1]
\* Python truthiness of a reading: None and 0 are falsy
Falsy(x) == x = None \/ Val(x) = 0

\* ------------------------------------------------------------------- bounds
\* the clock stops advancing here
MaxTime == 62
\* how many messages may be on their way in one direction: the gateway's own
\* mode announcements back to it, the node's messages, the gateway's commands
MaxInFlight == 2
\* how many images the camera posts
MaxRequests == 3

\* time.time() when the gateway starts is far more than one cooldown after
\* the epoch, so the first cooldown test never fails
StartTime == WATERING_COOLDOWN
\* how long the network thread may stay idle between two messages: just
\* short of the cooldown (counted from the end of a watering), and exactly it
IdleGaps == {WATERING_COOLDOWN - WATER_SECONDS - 1, WATERING_COOLDOWN - WATER_SECONDS}

\* a sensor message: a JSON object with some of the fields
Reading(t, m, l) == ("temp" :> Some(t)) @@ ("moisture" :> Some(m)) @@ ("light" :> Some(l))
\* hot, dry and dark: every rule wants its actuator on
HotDryDark   == Reading(35, 20, 30)
\* cool, wet and bright: every rule wants its actuator off
CoolWetLight == Reading(25, 40, 60)
\* the threshold values themselves
Boundary     == Reading(TEMP_THRESHOLD, SOIL_MOISTURE_THRESHOLD, LIGHT_THRESHOLD)
\* the soil probe's part of a message of the ESP32: a value, or JSON null
\* when the probe gave nothing
SoilProbe(soil_temp) == ("soil_temp" :> soil_temp)
ConcSensorMsgs == {HotDryDark, CoolWetLight}
SeqSensorMsgs  == {HotDryDark, CoolWetLight, Boundary,
                   ("moisture" :> Some(20)),
                   ("temp" :> Some(0)) @@ ("moisture" :> Some(20)),
                   ("temp" :> Some(35)) @@ ("moisture" :> Some(40))}
\* messages with and without a value of the soil probe
MergeSensorMsgs == {HotDryDark, CoolWetLight, SoilProbe(Some(22)), SoilProbe(None)}
\* sensor payloads that are not a JSON object: text that is not JSON, a JSON
\* number, and JSON arrays (of key-value pairs, and the empty one)
NotObjectPayloads == {[kind |-> "not json", items |-> <<>>],
                      [kind |-> "number", items |-> <<>>],
                      [kind |-> "array", items |-> <<>>],
                      [kind |-> "array",
                       items |-> << <<"temp", Some(35)>>, <<"moisture", Some(40)>> >>]}
StatusPayloads == {"online", "offline", "{\"pump\": false}"}
ModePayloads   == Modes \cup {"AUTO"}

\* a manual command: a JSON object with some of pump, fan, light
ControlRequests == {("fan" :> TRUE), ("fan" :> FALSE), ("pump" :> TRUE),
                    ("pump" :> FALSE) @@ ("light" :> TRUE)}

\* -------------------------------------------------------------------- state
VARIABLES
    mode,            \* state.mode
    sensors,         \* state.sensors (without the timestamp)
    actuators,       \* state.actuators
    override,        \* state.override
    last_watering,   \* state.last_watering
    esp32_online,    \* state.esp32_online
    camera_online,   \* state.camera_online
    mqtt_client,     \* the global mqtt_client: "client" or "None"
    now,             \* time.time(), in seconds
    mq,              \* the network thread: where it is, and auto_control's locals
    http,            \* the request thread: where it is, and the handler's locals
    ev,              \* what the last step did that the outside can see
    pump_log,        \* the times at which the policy switched the pump on
    detection,       \* state.detection
    det,             \* the request thread running detect_endpoint
    alerts,          \* the types of the alerts published on TOPIC_ALERT, in order
    found,           \* the results detect_objects has returned, in order
    st,              \* the request thread running status_endpoint
    seen,            \* the values the reported state has had since that request began
    inbox,           \* the gateway's own mode announcements, on their way back to it
    node,            \* the ESP32 node: where its main() is, and its actuator states
    uplink,          \* the messages the node has published, on their way to the gateway
    downlink         \* the commands the gateway has published, on their way to the node

vars == <<mode, sensors, actuators, override, last_watering, esp32_online,
          camera_online, mqtt_client, now, mq, http, ev, pump_log,
          detection, det, alerts, found, st, seen, inbox, node, uplink, downlink>>
\* what detect_endpoint and send_alert work on
camera == <<detection, det, alerts, found>>
\* the ESP32 node and the two directions of its link to the gateway
esp32 == <<node, uplink, downlink>>
\* what status_endpoint works on
status == <<st, seen>>
shared == <<mode, sensors, actuators, override, last_watering, esp32_online,
            camera_online>>

\* ------------------------------------------------------------------- events
NoFlags == [a \in Actuators |-> FALSE]
NoEv == [k |-> "none", by |-> "", act |-> "", on |-> FALSE, ok |-> FALSE,
         pub |-> "", was |-> NoFlags, code |-> 0, from |-> "", to |-> ""]
\* send_command(act, on) was called by `by` and returned ok; publish was not
\* reached (pub = "no"), returned ("ok") or raised ("raised"); the belief
\* was `was` before the call
EvCmd(by, act, on, ok, pub, was) ==
    [NoEv EXCEPT !.k = "cmd", !.by = by, !.act = act, !.on = on, !.ok = ok,
                 !.pub = pub, !.was = was]
\* an HTTP response
EvResp(op, code) == [NoEv EXCEPT !.k = "resp", !.by = op, !.code = code]
\* state.mode was assigned
EvMode(by, from, to) == [NoEv EXCEPT !.k = "mode", !.by = by, !.from = from, !.to = to]
\* a mode message was dropped, a change-mode request refused
EvNoMode(by, from, to, code) ==
    [NoEv EXCEPT !.k = "nomode", !.by = by, !.from = from, !.to = to, !.code = code]
\* state.override was replaced; `was` holds the flags before
EvClear(by, was) == [NoEv EXCEPT !.k = "clear", !.by = by, !.was = was]
\* a request passed its handler's first test
EvReq(op) == [NoEv EXCEPT !.k = "req", !.by = op]
\* an alert of this type was published
EvAlert(alert_type) == [NoEv EXCEPT !.k = "alert", !.act = alert_type]
\* a message was routed
EvMsg(topic) == [NoEv EXCEPT !.k = "msg", !.by = topic]
\* a sensor message arrived whose payload is not a JSON object
EvNotObject(kind) == [EvMsg("sensors") EXCEPT !.from = kind]

\* ----------------------------------------------------------- reported state
\* what status_endpoint reports: the shared state at this instant
View == [mode |-> mode, sensors |-> sensors, actuators |-> actuators,
         detection |-> detection, esp32_online |-> esp32_online,
         camera_online |-> camera_online]
\* a step of the network thread is noted while a status request is at work
Observed == seen' = IF st.pc = "idle" THEN seen ELSE seen \cup {View'}

\* ---------------------------------------------------------------------- init
MqIdle   == [pc |-> "idle", current_time |-> 0, want |-> FALSE, sleep_until |-> 0]
StIdle   == [pc |-> "idle", mode |-> "", esp32_online |-> FALSE,
             camera_online |-> FALSE]
DetIdle  == [pc |-> "idle", result |-> [error |-> "none", pest_detected |-> FALSE,
                                        disease_detected |-> FALSE, ripe_tomatoes |-> 0],
             n |-> 0]
\* state.detection in SystemState.__init__
NoDetection == [pest |-> FALSE, disease |-> FALSE, ripe |-> FALSE, confidence |-> 0,
                timestamp |-> None]
\* SensorNode.__init__ and main() of the node up to mqtt.connect(); has_data
\* tells whether `data` in main() holds a reading
SensorNode == [pc |-> "connect", connected |-> FALSE, has_data |-> FALSE,
               pump_state |-> FALSE, fan_state |-> FALSE, light_state |-> FALSE]
\* the request thread between requests; `was` keeps, for a change-mode
\* request, state.mode and state.override as they were when it arrived
\* and `sent`, for a manual command request, the fields whose command was
\* published
HttpIdle == [pc |-> "idle", data |-> <<>>, field |-> "", done |-> {}, sent |-> {},
             was |-> <<>>]

\* SystemState.__init__, and main() up to app.run
SystemState ==
    /\ mode = MODE_AUTO
    /\ sensors = [f \in SensorFields |-> None]
    /\ actuators = [a \in Actuators |-> FALSE]
    /\ override = [a \in Actuators |-> FALSE]
    /\ last_watering = 0
    /\ esp32_online = FALSE
    /\ camera_online = FALSE

\* setup_mqtt returns the client, or None when the connection fails
setup_mqtt == {"client", "None"}

Init ==
    /\ SystemState
    /\ mqtt_client \in setup_mqtt
    /\ now = StartTime
    /\ mq = MqIdle
    /\ http = HttpIdle
    /\ ev = NoEv
    /\ pump_log = {}
    /\ detection = NoDetection
    /\ det = DetIdle
    /\ alerts = <<>>
    /\ found = <<>>
    /\ st = StIdle
    /\ seen = {}
    /\ inbox = <<>>
    /\ node = SensorNode
    /\ uplink = <<>>
    /\ downlink = <<>>

\* ------------------------------------------------------------- send_command
\* send_command reaches mqtt_client.publish when there is a client and the
\* actuator is a key of topic_map; it returns True when publish returns and
\* False in every other case
send_command_publishes(client, actuator) ==
    /\ client # "None"
    /\ actuator \in DOMAIN topic_map

send_command_returns(client, actuator, pub_ok) ==
    /\ send_command_publishes(client, actuator)
    /\ pub_ok

\* a faulty send_command that records the belief before it publishes
send_command_belief_eager(belief, actuator, state_on, returned) ==
    IF actuator \in DOMAIN belief THEN [belief EXCEPT ![actuator] = state_on] ELSE belief

\* state.actuators after send_command: written only after publish returned
send_command_belief(belief, actuator, state_on, returned) ==
    IF returned THEN [belief EXCEPT ![actuator] = state_on] ELSE belief

\* one call of send_command (control_pump, control_fan, control_light) by
\* `by`; whether publish raises is the transport's choice
send_command(by, actuator, state_on) ==
    \E pub_ok \in BOOLEAN :
        LET returned == send_command_returns(mqtt_client, actuator, pub_ok) IN
        /\ actuators' = send_command_belief(actuators, actuator, state_on, returned)
        /\ ev' = EvCmd(by, actuator, state_on, returned,
                       IF ~send_command_publishes(mqtt_client, actuator) THEN "no"
                       ELSE IF pub_ok THEN "ok" ELSE "raised",
                       actuators)

\* ------------------------------------------------------------ the policy
\* should_be_on of the light rule
light_should_be_on(light) == Val(light) < LIGHT_THRESHOLD
\* should_be_on of the cooling rule
fan_should_be_on(temp) == Val(temp) > TEMP_THRESHOLD
\* the irrigation rule's moisture test
soil_is_dry(moisture) == Val(moisture) < SOIL_MOISTURE_THRESHOLD
\* a faulty cooldown test: any time at all since the last watering
cooldown_passed_any(current_time, last) == (current_time - last) > 0
\* cooldown_passed
cooldown_passed(current_time, last) == (current_time - last) >= WATERING_COOLDOWN
\* a faulty rule that does not compare the wanted state with the belief
rule_fires_always(should_be_on, is_on, is_overridden) == ~is_overridden
\* the two branches of a rule: a command is sent when the wanted state
\* differs from the belief and the actuator is not overridden
rule_fires(should_be_on, is_on, is_overridden) ==
    \/ should_be_on /\ ~is_on /\ ~is_overridden
    \/ ~should_be_on /\ is_on /\ ~is_overridden
\* "Skip if no sensor data"
no_sensor_data(s) == Falsy(s["temp"]) \/ s["moisture"] = None

\* ------------------------------------------------- the network thread
MqAt(pc) == mqtt_client = "client" /\ mq.pc = pc
MqGoto(pc) == mq' = [mq EXCEPT !.pc = pc]

\* state.sensors.update(data)
sensors_update(s, data) ==
    [f \in SensorFields |-> IF f \in DOMAIN data THEN data[f] ELSE s[f]]

\* on_mqtt_message, TOPIC_SENSORS: json.loads, state.sensors.update
on_sensors(data) ==
    /\ MqAt("idle")
    /\ sensors' = sensors_update(sensors, data)
    /\ MqGoto("online")
    /\ ev' = EvMsg("sensors")
    /\ UNCHANGED <<mode, actuators, override, last_watering, esp32_online,
                   camera_online, mqtt_client, inbox, node, downlink, camera, status, now, http, pump_log>>

\* state.esp32_online = True, then auto_control() is entered
on_sensors_online ==
    /\ MqAt("online")
    /\ esp32_online' = TRUE
    /\ MqGoto("auto_control")
    /\ ev' = NoEv
    /\ UNCHANGED <<mode, sensors, actuators, override, last_watering,
                   camera_online, mqtt_client, inbox, esp32, camera, status, now, http, pump_log>>

\* json.loads raises for text that is not JSON, and dict.update raises for a
\* value that cannot be iterated; the handler's except block ends the callback
handler_raises(payload) == payload.kind \in {"not json", "number"}
\* dict.update with a list of key-value pairs: the last pair of a key wins
sensors_update_pairs(s, items) ==
    [f \in SensorFields |->
        LET at == {i \in 1..Len(items) : items[i][1] = f} IN
        IF at = {} THEN s[f]
        ELSE items[CHOOSE i \in at : \A j \in at : j <= i][2]]

\* on_mqtt_message, TOPIC_SENSORS, with a payload that is not a JSON object:
\* json.loads and state.sensors.update
on_sensors_not_object(payload) ==
    /\ MqAt("idle")
    /\ IF handler_raises(payload)
       THEN UNCHANGED <<sensors, mq>>
       ELSE /\ sensors' = sensors_update_pairs(sensors, payload.items)
            /\ MqGoto("online_array")
    /\ ev' = EvNotObject(payload.kind)
    /\ UNCHANGED <<mode, actuators, override, last_watering, esp32_online,
                   camera_online, mqtt_client, inbox, esp32, camera, status, now, http, pump_log>>

\* state.esp32_online = True; then data.get raises for a list
\* (AttributeError) and the except block ends the callback before auto_control
on_sensors_array_online ==
    /\ MqAt("online_array")
    /\ esp32_online' = TRUE
    /\ mq' = MqIdle
    /\ ev' = NoEv
    /\ UNCHANGED <<mode, sensors, actuators, override, last_watering,
                   camera_online, mqtt_client, inbox, esp32, camera, status, now, http, pump_log>>

\* auto_control: the mode test, the sensor test, current_time = time.time()
auto_control_enter ==
    /\ MqAt("auto_control")
    /\ IF mode = MODE_MANUAL \/ no_sensor_data(sensors)
       THEN mq' = MqIdle
       ELSE mq' = [mq EXCEPT !.pc = "light", !.current_time = now]
    /\ ev' = NoEv
    /\ UNCHANGED <<shared, mqtt_client, inbox, esp32, camera, status, now, http, pump_log>>

\* LIGHT CONTROL: should_be_on, is_on and is_overridden are read
auto_control_light ==
    /\ MqAt("light")
    /\ IF /\ sensors["light"] # None
          /\ rule_fires(light_should_be_on(sensors["light"]), actuators["light"],
                        override["light"])
       THEN mq' = [mq EXCEPT !.pc = "light_cmd",
                             !.want = light_should_be_on(sensors["light"])]
       ELSE MqGoto("irrigation")
    /\ ev' = NoEv
    /\ UNCHANGED <<shared, mqtt_client, inbox, esp32, camera, status, now, http, pump_log>>

\* control_light(True) or control_light(False)
auto_control_light_cmd ==
    /\ MqAt("light_cmd")
    /\ send_command("policy", "light", mq.want)
    /\ MqGoto("irrigation")
    /\ UNCHANGED <<mode, sensors, override, last_watering, esp32_online,
                   camera_online, mqtt_client, inbox, esp32, camera, status, now, http, pump_log>>

\* IRRIGATION CONTROL: the moisture test, cooldown_passed, is_overridden
auto_control_irrigation ==
    /\ MqAt("irrigation")
    /\ IF /\ soil_is_dry(sensors["moisture"])
          /\ cooldown_passed(mq.current_time, last_watering)
          /\ ~override["pump"]
       THEN MqGoto("pump_on")
       ELSE MqGoto("cooling")
    /\ ev' = NoEv
    /\ UNCHANGED <<shared, mqtt_client, inbox, esp32, camera, status, now, http, pump_log>>

\* control_pump(True), and time.sleep(2) begins
auto_control_pump_on ==
    /\ MqAt("pump_on")
    /\ send_command("policy", "pump", TRUE)
    /\ pump_log' = IF ev'.ok THEN pump_log \cup {now} ELSE pump_log
    /\ mq' = [mq EXCEPT !.pc = "sleep", !.sleep_until = now + WATER_SECONDS]
    /\ UNCHANGED <<mode, sensors, override, last_watering, esp32_online,
                   camera_online, mqtt_client, inbox, esp32, camera, status, now, http>>

\* time.sleep(2) returns
auto_control_wake ==
    /\ MqAt("sleep")
    /\ now >= mq.sleep_until
    /\ MqGoto("pump_off")
    /\ ev' = NoEv
    /\ UNCHANGED <<shared, mqtt_client, inbox, esp32, camera, status, now, http, pump_log>>

\* control_pump(False)
auto_control_pump_off ==
    /\ MqAt("pump_off")
    /\ send_command("policy", "pump", FALSE)
    /\ MqGoto("last_watering")
    /\ UNCHANGED <<mode, sensors, override, last_watering, esp32_online,
                   camera_online, mqtt_client, inbox, esp32, camera, status, now, http, pump_log>>

\* the value stored by state.last_watering = current_time
watering_stamp(current_time, t) == current_time

\* state.last_watering = current_time
auto_control_last_watering ==
    /\ MqAt("last_watering")
    /\ last_watering' = watering_stamp(mq.current_time, now)
    /\ MqGoto("cooling")
    /\ ev' = NoEv
    /\ UNCHANGED <<mode, sensors, actuators, override, esp32_online,
                   camera_online, mqtt_client, inbox, esp32, camera, status, now, http, pump_log>>

\* COOLING CONTROL: should_be_on, is_on and is_overridden are read
auto_control_cooling ==
    /\ MqAt("cooling")
    /\ IF rule_fires(fan_should_be_on(sensors["temp"]), actuators["fan"],
                     override["fan"])
       THEN mq' = [mq EXCEPT !.pc = "fan_cmd",
                             !.want = fan_should_be_on(sensors["temp"])]
       ELSE mq' = MqIdle
    /\ ev' = NoEv
    /\ UNCHANGED <<shared, mqtt_client, inbox, esp32, camera, status, now, http, pump_log>>

\* control_fan(True) or control_fan(False); auto_control and the callback return
auto_control_fan_cmd ==
    /\ MqAt("fan_cmd")
    /\ send_command("policy", "fan", mq.want)
    /\ mq' = MqIdle
    /\ UNCHANGED <<mode, sensors, override, last_watering, esp32_online,
                   camera_online, mqtt_client, inbox, esp32, camera, status, now, http, pump_log>>

\* a faulty status handler that takes every payload but "offline" as online
on_esp32_status_not_offline(payload) ==
    /\ MqAt("idle")
    /\ esp32_online' = (payload # "offline")
    /\ ev' = EvMsg("esp32_status")
    /\ UNCHANGED <<mode, sensors, actuators, override, last_watering,
                   camera_online, mqtt_client, inbox, node, downlink, camera, st, now, mq, http, pump_log>>
    /\ Observed

\* on_mqtt_message, TOPIC_ESP32_STATUS
on_esp32_status(payload) ==
    /\ MqAt("idle")
    /\ esp32_online' = (payload = "online")
    /\ ev' = EvMsg("esp32_status")
    /\ UNCHANGED <<mode, sensors, actuators, override, last_watering,
                   camera_online, mqtt_client, inbox, node, downlink, camera, st, now, mq, http, pump_log>>
    /\ Observed

\* on_mqtt_message, TOPIC_CAMERA_STATUS
on_camera_status(payload) ==
    /\ MqAt("idle")
    /\ camera_online' = (payload = "online")
    /\ ev' = EvMsg("camera_status")
    /\ UNCHANGED <<mode, sensors, actuators, override, last_watering,
                   esp32_online, mqtt_client, inbox, esp32, camera, st, now, mq, http, pump_log>>
    /\ Observed

\* a faulty test that ignores the case of the letters
valid_mode_any_case(m) == m \in {MODE_MANUAL, MODE_AUTO, MODE_HYBRID, "AUTO"}
\* the test both mode changes make
valid_mode(m) == m \in {MODE_MANUAL, MODE_AUTO, MODE_HYBRID}
\* a faulty clear that leaves the pump's flag as it was
cleared_override_but_pump(old) == [a \in Actuators |-> a = "pump" /\ old[a]]
\* the dictionary both mode changes store in state.override
cleared_override(old) == [a \in Actuators |-> FALSE]

\* on_mqtt_message, TOPIC_MODE_CONTROL: the test, and state.mode = payload
\* (where the message came from is for the caller to say)
on_mode(payload) ==
    /\ MqAt("idle")
    /\ IF valid_mode(payload)
       THEN /\ mode' = payload
            /\ MqGoto("mode_clear")
            /\ ev' = EvMode("mqtt", mode, payload)
       ELSE /\ UNCHANGED <<mode, mq>>
            /\ ev' = EvNoMode("mqtt", mode, payload, 0)
    /\ UNCHANGED <<sensors, actuators, override, last_watering, esp32_online,
                   camera_online, mqtt_client, esp32, camera, status, now, http, pump_log>>

\* a faulty mode change that also marks every actuator off
on_mode_clear_all_off ==
    /\ MqAt("mode_clear")
    /\ override' = cleared_override(override)
    /\ actuators' = [a \in Actuators |-> FALSE]
    /\ mq' = MqIdle
    /\ ev' = EvClear("mqtt", override)
    /\ UNCHANGED <<mode, sensors, last_watering, esp32_online,
                   camera_online, mqtt_client, inbox, esp32, now, http, pump_log, camera, status>>

\* state.override = {'pump': False, 'fan': False, 'light': False}
on_mode_clear ==
    /\ MqAt("mode_clear")
    /\ override' = cleared_override(override)
    /\ mq' = MqIdle
    /\ ev' = EvClear("mqtt", override)
    /\ UNCHANGED <<mode, sensors, actuators, last_watering, esp32_online,
                   camera_online, mqtt_client, inbox, esp32, camera, status, now, http, pump_log>>

\* ------------------------------------------------------------------ the clock
\* Statements take no time on the one-second clock; time passes while the
\* network thread sleeps (time.sleep(2)) or waits for the next message.
Tick(d) ==
    /\ now' = now + d
    /\ now' <= MaxTime
    /\ ev' = NoEv
    /\ UNCHANGED <<shared, mqtt_client, inbox, esp32, camera, status, mq, http, pump_log>>

\* the two seconds of time.sleep(2) pass
sleep_tick ==
    /\ mq.pc = "sleep"
    /\ now < mq.sleep_until
    /\ Tick(mq.sleep_until - now)

\* time passes before the next message arrives
idle_tick ==
    /\ mq.pc = "idle"
    /\ \E d \in IdleGaps : Tick(d)

\* ------------------------------------------------------ the request thread
HttpAt(pc) == http.pc = pc
HttpGoto(pc) == http' = [http EXCEPT !.pc = pc]

\* the order in which control_endpoint looks for the fields
FieldOrder == <<"pump", "fan", "light">>
\* the first field of the request at or after position i, "" when none is left
next_field(data, i) ==
    LET left == {j \in i..Len(FieldOrder) : FieldOrder[j] \in DOMAIN data} IN
    IF left = {} THEN ""
    ELSE FieldOrder[CHOOSE j \in left : \A k \in left : j <= k]
position(field) == CHOOSE j \in 1..Len(FieldOrder) : FieldOrder[j] = field

\* a faulty guard that refuses manual mode instead of auto
control_rejected_manual(m) == m = MODE_MANUAL
\* the mode guard of control_endpoint
control_rejected(m) == m = MODE_AUTO

\* control_endpoint: request.get_json() and the mode guard
control_endpoint(data) ==
    /\ HttpAt("idle")
    /\ IF control_rejected(mode)
       THEN /\ ev' = EvResp("control", 403)
            /\ UNCHANGED http
       ELSE /\ ev' = EvReq("control")
            /\ http' = [HttpIdle EXCEPT
                            !.pc = IF next_field(data, 1) = "" THEN "control_resp"
                                   ELSE "control_cmd",
                            !.data = data, !.field = next_field(data, 1)]
    /\ UNCHANGED <<shared, mqtt_client, inbox, esp32, camera, status, now, mq, pump_log>>

\* control_pump(data['pump']), control_fan(data['fan']), control_light(data['light'])
control_cmd ==
    /\ HttpAt("control_cmd")
    /\ send_command("manual", http.field, http.data[http.field])
    /\ http' = [http EXCEPT !.pc = "control_mode", !.done = @ \cup {http.field},
                             !.sent = IF ev'.pub = "ok" THEN @ \cup {http.field} ELSE @]
    /\ UNCHANGED <<mode, sensors, override, last_watering, esp32_online,
                   camera_online, mqtt_client, inbox, esp32, camera, status, now, mq, pump_log>>

\* where control_endpoint goes once it is done with one field
control_after(h) ==
    LET nf == next_field(h.data, position(h.field) + 1) IN
    [h EXCEPT !.pc = IF nf = "" THEN "control_resp" ELSE "control_cmd",
              !.field = IF nf = "" THEN h.field ELSE nf]

\* if state.mode == MODE_HYBRID
control_mode ==
    /\ HttpAt("control_mode")
    /\ IF mode = MODE_HYBRID
       THEN HttpGoto("control_override")
       ELSE http' = control_after(http)
    /\ ev' = NoEv
    /\ UNCHANGED <<shared, mqtt_client, inbox, esp32, camera, status, now, mq, pump_log>>

\* state.override[field] = True
control_override ==
    /\ HttpAt("control_override")
    /\ override' = [override EXCEPT ![http.field] = TRUE]
    /\ http' = control_after(http)
    /\ ev' = NoEv
    /\ UNCHANGED <<mode, sensors, actuators, last_watering, esp32_online,
                   camera_online, mqtt_client, inbox, esp32, camera, status, now, mq, pump_log>>

\* return jsonify({'status': 'ok', 'actuators': state.actuators})
control_resp ==
    /\ HttpAt("control_resp")
    /\ ev' = [EvResp("control", 200) EXCEPT !.was = actuators]
    /\ http' = HttpIdle
    /\ UNCHANGED <<shared, mqtt_client, inbox, esp32, camera, status, now, mq, pump_log>>

\* mode_endpoint: the test, and state.mode = new_mode
mode_endpoint(new_mode) ==
    /\ HttpAt("idle")
    /\ IF valid_mode(new_mode)
       THEN /\ mode' = new_mode
            /\ http' = [HttpIdle EXCEPT !.pc = "mode_clear", !.field = new_mode,
                                       !.was = <<mode, override>>]
            /\ ev' = EvMode("http", mode, new_mode)
       ELSE /\ ev' = EvNoMode("http", mode, new_mode, 400)
            /\ UNCHANGED <<mode, http>>
    /\ UNCHANGED <<sensors, actuators, override, last_watering, esp32_online,
                   camera_online, mqtt_client, inbox, esp32, camera, status, now, mq, pump_log>>

\* state.override = {'pump': False, 'fan': False, 'light': False}
mode_clear ==
    /\ HttpAt("mode_clear")
    /\ override' = cleared_override(override)
    /\ HttpGoto("mode_publish")
    /\ ev' = EvClear("http", override)
    /\ UNCHANGED <<mode, sensors, actuators, last_watering, esp32_online,
                   camera_online, mqtt_client, inbox, esp32, camera, status, now, mq, pump_log>>

\* mqtt_client.publish(TOPIC_MODE_CONTROL, new_mode) and the response: 500
\* when there is no client (AttributeError) or publish raises
mode_publish ==
    /\ HttpAt("mode_publish")
    /\ \E pub_ok \in BOOLEAN :
          ev' = EvResp("mode", IF mqtt_client # "None" /\ pub_ok THEN 200 ELSE 500)
    /\ http' = HttpIdle
    /\ UNCHANGED <<shared, mqtt_client, inbox, esp32, camera, status, now, mq, pump_log>>

\* --------------------------------------------------- detection and alerts
\* the result of detect_objects for an image that cannot be used
ErrorResult(why) == [error |-> why, pest_detected |-> FALSE,
                     disease_detected |-> FALSE, ripe_tomatoes |-> 0]
\* a result of the detector, as its interface gives it
Detected(pest, disease, ripe) == [error |-> "", pest_detected |-> pest,
                                  disease_detected |-> disease, ripe_tomatoes |-> ripe]
\* the result the placeholder in detect_objects returns
DummyResult == Detected(FALSE, FALSE, 0)
\* results over the interface the detector is to have ('pest_detected': bool,
\* 'disease_detected': bool, 'ripe_tomatoes': int), the placeholder's included
DetectorResults == {DummyResult, Detected(TRUE, FALSE, 2), Detected(FALSE, TRUE, 0),
                    Detected(TRUE, TRUE, 1)}
\* request bodies: no bytes, bytes that are not an image, a JPEG image
Images == {"empty", "not an image", "jpeg"}

\* detect_objects: cv2.imdecode gives None for bytes that are not an image;
\* for an image the detector gives a result or raises, and what it raises is
\* turned into an error result
detect_objects(image_data) ==
    IF image_data = "not an image" THEN {ErrorResult("Invalid image")}
    ELSE DetectorResults \cup {ErrorResult("exception")}

\* a faulty test that takes every result for a detection
has_detection_always(result) == TRUE
\* 'pest_detected' in result
has_detection(result) == result.error = ""

\* the alerts one result asks for, in the order detect_endpoint sends them
alerts_of(result) ==
    (IF result.pest_detected THEN <<"pest">> ELSE <<>>)
    \o (IF result.disease_detected THEN <<"disease">> ELSE <<>>)
    \o (IF result.ripe_tomatoes > 0 THEN <<"harvest">> ELSE <<>>)

DetAt(pc) == det.pc = pc
DetGoto(pc) == det' = [det EXCEPT !.pc = pc]
\* the handler returns with this status code
DetReturn(code) ==
    /\ det' = [DetIdle EXCEPT !.n = det.n]
    /\ ev' = EvResp("detect", code)

\* detect_endpoint: request.get_data(), the empty test, detect_objects, and
\* the test 'pest_detected' in result
detect_endpoint(image_data) ==
    /\ DetAt("idle")
    /\ det.n < MaxRequests
    /\ IF image_data = "empty"
       THEN /\ det' = [det EXCEPT !.n = @ + 1]
            /\ ev' = EvResp("detect", 400)
            /\ UNCHANGED found
       ELSE \E result \in detect_objects(image_data) :
               /\ det' = [pc |-> IF has_detection(result) THEN "set_pest" ELSE "resp",
                          result |-> result, n |-> det.n + 1]
               /\ found' = IF result.error = "" THEN Append(found, result) ELSE found
               /\ ev' = EvReq("detect")
    /\ UNCHANGED <<shared, mqtt_client, inbox, esp32, status, now, mq, http, pump_log, detection, alerts>>

\* state.detection['pest'] = result['pest_detected']
detect_set_pest ==
    /\ DetAt("set_pest")
    /\ detection' = [detection EXCEPT !.pest = det.result.pest_detected]
    /\ DetGoto("set_disease")
    /\ ev' = NoEv
    /\ UNCHANGED <<shared, mqtt_client, inbox, esp32, status, now, mq, http, pump_log, alerts, found>>

\* state.detection['disease'] = result['disease_detected']
detect_set_disease ==
    /\ DetAt("set_disease")
    /\ detection' = [detection EXCEPT !.disease = det.result.disease_detected]
    /\ DetGoto("set_ripe")
    /\ ev' = NoEv
    /\ UNCHANGED <<shared, mqtt_client, inbox, esp32, status, now, mq, http, pump_log, alerts, found>>

\* state.detection['ripe'] = result['ripe_tomatoes'] > 0
detect_set_ripe ==
    /\ DetAt("set_ripe")
    /\ detection' = [detection EXCEPT !.ripe = det.result.ripe_tomatoes > 0]
    /\ DetGoto("set_timestamp")
    /\ ev' = NoEv
    /\ UNCHANGED <<shared, mqtt_client, inbox, esp32, status, now, mq, http, pump_log, alerts, found>>

\* state.detection['timestamp'] = result['timestamp']: the time of the
\* detection, which is told apart here by the number of the request
detect_set_timestamp ==
    /\ DetAt("set_timestamp")
    /\ detection' = [detection EXCEPT !.timestamp = Some(det.n)]
    /\ DetGoto("alert_pest")
    /\ ev' = NoEv
    /\ UNCHANGED <<shared, mqtt_client, inbox, esp32, status, now, mq, http, pump_log, alerts, found>>

\* send_alert(message, alert_type): nothing without a client; with one, the
\* alert is published, or publish raises and the exception reaches the
\* except block of detect_endpoint, which answers 500
send_alert(alert_type, next_pc) ==
    IF mqtt_client = "None"
    THEN /\ DetGoto(next_pc)
         /\ ev' = NoEv
         /\ UNCHANGED alerts
    ELSE \E pub_ok \in BOOLEAN :
            IF pub_ok
            THEN /\ alerts' = Append(alerts, alert_type)
                 /\ DetGoto(next_pc)
                 /\ ev' = EvAlert(alert_type)
            ELSE /\ DetReturn(500)
                 /\ UNCHANGED alerts

\* one `if` of the "Send alerts" part of detect_endpoint
alert_if(wanted, alert_type, next_pc) ==
    /\ IF wanted
       THEN send_alert(alert_type, next_pc)
       ELSE /\ DetGoto(next_pc)
            /\ ev' = NoEv
            /\ UNCHANGED alerts
    /\ UNCHANGED <<shared, mqtt_client, inbox, esp32, status, now, mq, http, pump_log, detection, found>>

\* if result['pest_detected']: send_alert(..., "pest", ...)
detect_alert_pest ==
    DetAt("alert_pest") /\ alert_if(det.result.pest_detected, "pest", "alert_disease")

\* if result['disease_detected']: send_alert(..., "disease", ...)
detect_alert_disease ==
    DetAt("alert_disease")
        /\ alert_if(det.result.disease_detected, "disease", "alert_harvest")

\* if result['ripe_tomatoes'] > 0: send_alert(..., "harvest", ...)
detect_alert_harvest ==
    DetAt("alert_harvest") /\ alert_if(det.result.ripe_tomatoes > 0, "harvest", "resp")

\* return jsonify(result)
detect_resp ==
    /\ DetAt("resp")
    /\ DetReturn(200)
    /\ UNCHANGED <<shared, mqtt_client, inbox, esp32, status, now, mq, http, pump_log, detection, alerts, found>>

\* ------------------------------------------------- the mode topic, both ways
\* mode_publish with the broker in view: the gateway subscribes to
\* TOPIC_MODE_CONTROL (on_mqtt_connect), so what it publishes there is
\* delivered back to its own on_mqtt_message
mode_publish_looped ==
    /\ HttpAt("mode_publish")
    /\ \E pub_ok \in BOOLEAN :
          LET published == mqtt_client # "None" /\ pub_ok IN
          /\ ev' = EvResp("mode", IF published THEN 200 ELSE 500)
          /\ inbox' = IF published THEN Append(inbox, http.field) ELSE inbox
    /\ http' = HttpIdle
    /\ UNCHANGED <<shared, mqtt_client, esp32, now, mq, pump_log, camera, status>>

\* on_mqtt_message for the gateway's own announcement
on_mode_looped ==
    /\ inbox # <<>>
    /\ on_mode(Head(inbox))
    /\ inbox' = Tail(inbox)

\* ------------------------------------------------------------ status query
\* status_endpoint: the dictionary is built, and state.mode is read; of
\* state.sensors, state.actuators and state.detection the dictionary holds
\* the object itself, whose content is read by jsonify
status_endpoint ==
    /\ st.pc = "idle"
    /\ st' = [st EXCEPT !.pc = "esp32_online", !.mode = mode]
    /\ seen' = {View}
    /\ ev' = EvReq("status")
    /\ UNCHANGED <<shared, mqtt_client, inbox, esp32, now, mq, http, pump_log, camera>>

\* 'esp32_online': state.esp32_online
status_esp32_online ==
    /\ st.pc = "esp32_online"
    /\ st' = [st EXCEPT !.pc = "camera_online", !.esp32_online = esp32_online]
    /\ ev' = NoEv
    /\ UNCHANGED <<shared, mqtt_client, inbox, esp32, now, mq, http, pump_log, camera, seen>>

\* 'camera_online': state.camera_online
status_camera_online ==
    /\ st.pc = "camera_online"
    /\ st' = [st EXCEPT !.pc = "jsonify", !.camera_online = camera_online]
    /\ ev' = NoEv
    /\ UNCHANGED <<shared, mqtt_client, inbox, esp32, now, mq, http, pump_log, camera, seen>>

\* what jsonify would return now: the values read so far, and the content of
\* the three dictionaries as it is when they are serialised
Snapshot == [mode |-> st.mode, sensors |-> sensors, actuators |-> actuators,
             detection |-> detection, esp32_online |-> st.esp32_online,
             camera_online |-> st.camera_online]

\* jsonify(...) serialises the dictionary, and the response is returned
status_jsonify ==
    /\ st.pc = "jsonify"
    /\ st' = StIdle
    /\ seen' = {}
    /\ ev' = EvResp("status", 200)
    /\ UNCHANGED <<shared, mqtt_client, inbox, esp32, now, mq, http, pump_log, camera>>

\* ------------------------------------------------------------ the ESP32 node
\* the topics as rasperrypi.py names them
TOPIC_SENSORS      == "tomato/sensors/data"
TOPIC_ESP32_STATUS == "tomato/esp32/status"
\* TOPIC_PUMP_CONTROL, TOPIC_FAN_CONTROL, TOPIC_LIGHT_CONTROL of rasperrypi.py,
\* the values of topic_map in send_command
command_topic == [a \in Actuators |->
                    IF a = "pump" THEN "tomato/pump/control"
                    ELSE IF a = "fan" THEN "tomato/fan/control"
                    ELSE "tomato/growlight/control"]
\* the topics as esp32.py names them
NODE_TOPIC_SENSORS       == "tomato/sensors/data"
NODE_TOPIC_STATUS        == "tomato/esp32/status"
NODE_TOPIC_PUMP_CONTROL  == "tomato/pump/control"
NODE_TOPIC_FAN_CONTROL   == "tomato/fan/control"
NODE_TOPIC_LIGHT_CONTROL == "tomato/growlight/control"

\* command = "on" if state_on else "off", in send_command
command(state_on) == IF state_on THEN "on" ELSE "off"
\* msg.decode().lower(), over the payloads of commands
lower(m) == IF m = "ON" THEN "on" ELSE IF m = "OFF" THEN "off" ELSE m
\* a faulty parse that takes only '1' and 'true' for on
parse_state_digits(m) == lower(m) \in {"1", "true"}
\* state = m in ['1', 'on', 'true'], in on_message of the node
parse_state(m) == lower(m) \in {"1", "on", "true"}

\* MQTTHandler.on_message with control_pump, control_fan and control_light
on_message(n, t, msg) ==
    LET state == parse_state(msg) IN
    IF t = NODE_TOPIC_PUMP_CONTROL THEN [n EXCEPT !.pump_state = state]
    ELSE IF t = NODE_TOPIC_FAN_CONTROL THEN [n EXCEPT !.fan_state = state]
    ELSE IF t = NODE_TOPIC_LIGHT_CONTROL THEN [n EXCEPT !.light_state = state]
    ELSE n

\* ujson.dumps of a bool
dumps_bool(b) == IF b THEN "true" ELSE "false"
\* ujson.dumps(self.node.get_status())
dumps_status(n) ==
    "{\"pump\": " \o dumps_bool(n.pump_state) \o ", \"fan\": " \o dumps_bool(n.fan_state)
        \o ", \"light\": " \o dumps_bool(n.light_state) \o "}"

\* a message of the node on its way to the gateway: sensor data, or the text
\* of a status message
SensorsMsg(data) == [topic |-> NODE_TOPIC_SENSORS, data |-> data, text |-> ""]
StatusMsg(text)  == [topic |-> NODE_TOPIC_STATUS, data |-> <<>>, text |-> text]
\* where main() of the node is inside its loop
NodeLoop == {"check", "publish_sensors", "publish_status"}

\* mqtt.connect(): the node subscribes to the control topics and publishes
\* "online"; when the connection fails it runs on without one
node_connect ==
    /\ node.pc = "connect"
    /\ \E ok \in BOOLEAN :
          /\ node' = [node EXCEPT !.pc = "check", !.connected = ok]
          /\ uplink' = IF ok THEN Append(uplink, StatusMsg("online")) ELSE uplink
    /\ ev' = NoEv
    /\ UNCHANGED <<shared, mqtt_client, inbox, downlink, camera, status, now, mq,
                   http, pump_log>>

\* mqtt.check(): check_msg hands one waiting command to on_message; then the
\* loop goes on to publish when publish_interval has passed (due), and
\* round again when not
node_check(due) ==
    /\ node.pc = "check"
    /\ LET next == IF due THEN "publish_sensors" ELSE "check" IN
       IF node.connected /\ downlink # <<>>
       THEN /\ node' = [on_message(node, Head(downlink).topic, Head(downlink).payload)
                            EXCEPT !.pc = next]
            /\ downlink' = Tail(downlink)
       ELSE /\ node' = [node EXCEPT !.pc = next]
            /\ UNCHANGED downlink
    /\ ev' = NoEv
    /\ UNCHANGED <<shared, mqtt_client, inbox, uplink, camera, status, now, mq,
                   http, pump_log>>

\* data = node.read_sensors(); mqtt.publish_sensors(data): nothing is
\* published when read_sensors gave None
node_publish_sensors ==
    /\ node.pc = "publish_sensors"
    /\ Len(uplink) < MaxInFlight
    /\ \E read_ok \in BOOLEAN, data \in ConcSensorMsgs :
          /\ uplink' = IF node.connected /\ read_ok
                       THEN Append(uplink, SensorsMsg(data)) ELSE uplink
          /\ node' = [node EXCEPT !.pc = "publish_status", !.has_data = read_ok]
    /\ ev' = NoEv
    /\ UNCHANGED <<shared, mqtt_client, inbox, downlink, camera, status, now, mq,
                   http, pump_log>>

\* mqtt.publish_status()
node_publish_status ==
    /\ node.pc = "publish_status"
    /\ Len(uplink) < MaxInFlight
    /\ uplink' = IF node.connected THEN Append(uplink, StatusMsg(dumps_status(node)))
                 ELSE uplink
    /\ node' = [node EXCEPT !.pc = "check"]
    /\ ev' = NoEv
    /\ UNCHANGED <<shared, mqtt_client, inbox, downlink, camera, status, now, mq,
                   http, pump_log>>

\* KeyboardInterrupt in the loop: everything off, "offline" published
node_shutdown ==
    /\ node.pc \in NodeLoop
    /\ Len(uplink) < MaxInFlight
    /\ node' = [node EXCEPT !.pc = "stopped", !.pump_state = FALSE,
                            !.fan_state = FALSE, !.light_state = FALSE]
    /\ uplink' = IF node.connected THEN Append(uplink, StatusMsg("offline")) ELSE uplink
    /\ ev' = NoEv
    /\ UNCHANGED <<shared, mqtt_client, inbox, downlink, camera, status, now, mq,
                   http, pump_log>>

\* the broker hands the gateway the next message of the node, in order
on_mqtt_message_of_node ==
    /\ uplink # <<>>
    /\ IF Head(uplink).topic = TOPIC_SENSORS
       THEN on_sensors(Head(uplink).data)
       ELSE Head(uplink).topic = TOPIC_ESP32_STATUS /\ on_esp32_status(Head(uplink).text)
    /\ uplink' = Tail(uplink)

\* send_command called by the gateway (state_on is True or False) while the
\* node is subscribed; the broker takes what was published to the node, in
\* order
send_command_to_node(actuator, state_on) ==
    /\ node.connected
    /\ node.pc \in NodeLoop
    /\ Len(downlink) < MaxInFlight
    /\ send_command("gateway", actuator, state_on)
    /\ downlink' = IF ev'.pub = "ok"
                   THEN Append(downlink, [topic |-> command_topic[actuator],
                                          payload |-> command(state_on)])
                   ELSE downlink
    /\ UNCHANGED <<mode, sensors, override, last_watering, esp32_online,
                   camera_online, mqtt_client, inbox, node, uplink, camera, status,
                   now, mq, http, pump_log>>

\* ------------------------------------------------------------ specifications
MqSteps ==
    \/ on_sensors_online
    \/ auto_control_enter
    \/ auto_control_light
    \/ auto_control_light_cmd
    \/ auto_control_irrigation
    \/ auto_control_pump_on
    \/ auto_control_wake
    \/ auto_control_pump_off
    \/ auto_control_last_watering
    \/ auto_control_cooling
    \/ auto_control_fan_cmd
    \/ on_mode_clear

HttpSteps ==
    \/ \E data \in ControlRequests : control_endpoint(data)
    \/ control_cmd
    \/ control_mode
    \/ control_override
    \/ control_resp
    \/ \E m \in ModePayloads : mode_endpoint(m)
    \/ mode_clear
    \/ mode_publish

\* the gateway with both threads running, over one watering cycle
Next ==
    \/ \E data \in ConcSensorMsgs : on_sensors(data) /\ UNCHANGED uplink
    \/ \E p \in ModePayloads : on_mode(p) /\ UNCHANGED inbox
    \/ MqSteps
    \/ HttpSteps
    \/ sleep_tick

Spec == Init /\ [][Next]_vars

\* the network thread alone: every kind of message, no operator request
NextSeq ==
    \/ \E data \in SeqSensorMsgs : on_sensors(data) /\ UNCHANGED uplink
    \/ \E payload \in NotObjectPayloads : on_sensors_not_object(payload)
    \/ on_sensors_array_online
    \/ \E p \in StatusPayloads : on_esp32_status(p) /\ UNCHANGED uplink
    \/ \E p \in StatusPayloads : on_camera_status(p)
    \/ \E p \in ModePayloads : on_mode(p) /\ UNCHANGED inbox
    \/ MqSteps
    \/ sleep_tick
    \/ idle_tick

SpecSeq == Init /\ [][NextSeq]_vars

\* the network thread alone, with the soil probe coming and going
NextMerge ==
    \/ \E data \in MergeSensorMsgs : on_sensors(data) /\ UNCHANGED uplink
    \/ \E p \in ModePayloads : on_mode(p) /\ UNCHANGED inbox
    \/ MqSteps
    \/ sleep_tick

SpecMerge == Init /\ [][NextMerge]_vars

\* a status query while status messages of the two nodes arrive
NextStatus ==
    \/ status_endpoint
    \/ status_esp32_online
    \/ status_camera_online
    \/ status_jsonify
    \/ \E p \in StatusPayloads : on_esp32_status(p) /\ UNCHANGED uplink
    \/ \E p \in StatusPayloads : on_camera_status(p)

SpecStatus == Init /\ [][NextStatus]_vars

\* the operator's requests, with the gateway's announcements coming back and
\* no other party on the mode topic
NextLooped ==
    \/ \E m \in ModePayloads : Len(inbox) < MaxInFlight /\ mode_endpoint(m)
    \/ mode_clear
    \/ mode_publish_looped
    \/ \E data \in ControlRequests : control_endpoint(data)
    \/ control_cmd
    \/ control_mode
    \/ control_override
    \/ control_resp
    \/ on_mode_looped
    \/ on_mode_clear

SpecLooped == Init /\ [][NextLooped]_vars

\* the operator's requests while sensor messages arrive, and no message on
\* the mode topic: the mode changes only by the operator's own request
NextManual ==
    \/ \E data \in ConcSensorMsgs : on_sensors(data) /\ UNCHANGED uplink
    \/ on_sensors_online
    \/ auto_control_enter
    \/ auto_control_light
    \/ auto_control_light_cmd
    \/ auto_control_irrigation
    \/ auto_control_pump_on
    \/ auto_control_wake
    \/ auto_control_pump_off
    \/ auto_control_last_watering
    \/ auto_control_cooling
    \/ auto_control_fan_cmd
    \/ HttpSteps
    \/ sleep_tick

SpecManual == Init /\ [][NextManual]_vars

\* the node in its publish loop and the gateway taking its messages in order
NextCycle ==
    \/ node_connect
    \/ \E due \in BOOLEAN : node_check(due)
    \/ node_publish_sensors
    \/ node_publish_status
    \/ node_shutdown
    \/ on_mqtt_message_of_node
    \/ on_sensors_online
    \/ auto_control_enter
    \/ auto_control_light
    \/ auto_control_light_cmd
    \/ auto_control_irrigation
    \/ auto_control_pump_on
    \/ auto_control_wake
    \/ auto_control_pump_off
    \/ auto_control_last_watering
    \/ auto_control_cooling
    \/ auto_control_fan_cmd
    \/ sleep_tick

SpecCycle == Init /\ [][NextCycle]_vars

\* the gateway's commands on their way to a node that is subscribed and
\* between two publications
NextBelief ==
    \/ node_connect
    \/ node_check(FALSE)
    \/ \E a \in Actuators \cup {"valve"}, on \in BOOLEAN : send_command_to_node(a, on)

SpecBelief == Init /\ [][NextBelief]_vars

\* the camera posting images, one request at a time
NextDetect ==
    \/ \E image_data \in Images : detect_endpoint(image_data)
    \/ detect_set_pest
    \/ detect_set_disease
    \/ detect_set_ripe
    \/ detect_set_timestamp
    \/ detect_alert_pest
    \/ detect_alert_disease
    \/ detect_alert_harvest
    \/ detect_resp

SpecDetect == Init /\ [][NextDetect]_vars

\* send_command called on its own, with any argument
send_command_call(actuator, state_on) ==
    /\ send_command("caller", actuator, state_on)
    /\ UNCHANGED <<mode, sensors, override, last_watering, esp32_online,
                   camera_online, mqtt_client, inbox, esp32, camera, status, now, mq, http, pump_log>>

NextSend == \E a \in Actuators \cup {"valve"}, on \in BOOLEAN : send_command_call(a, on)

SpecSend == Init /\ [][NextSend]_vars

\* ==================================================================== claims
PolicyCmd == ev.k = "cmd" /\ ev.by = "policy"

\* C1 (SpecSeq): cooldown.  Any two times at which the policy switched the
\* pump on are at least WATERING_COOLDOWN seconds apart, whatever readings
\* arrived in between.
C1_Cooldown ==
    \A t1 \in pump_log : \A t2 \in pump_log :
        t1 < t2 => t2 >= t1 + WATERING_COOLDOWN
\* the policy has watered twice
C1_Witness == Cardinality(pump_log) = 2

\* C2 (Spec): a mode message or change-mode request naming one of the three
\* modes is never refused, whatever the current mode, and sets state.mode to
\* it; once the handler has replaced state.override, all three flags are false.
C2_ModeTransition ==
    /\ (ev.k \in {"mode", "nomode"} /\ ev.to \in Modes) => (ev.k = "mode" /\ mode = ev.to)
    /\ ev.k = "clear" => \A a \in Actuators : ~override[a]
\* a change to manual mode has just cleared a flag the operator had set
C2_Witness == ev.k = "clear" /\ ev.was # NoFlags /\ mode = MODE_MANUAL

\* C3 (Spec): while override[a] is true the policy does not change the belief
\* of light or fan, and does not switch the pump on.
C3_OverrideSuppresses ==
    PolicyCmd =>
        /\ (ev.act \in {"light", "fan"} /\ actuators[ev.act] # ev.was[ev.act])
               => ~override[ev.act]
        /\ (ev.act = "pump" /\ ev.on) => ~override["pump"]

\* C4 (Spec): a manual command that arrives while the mode is auto is answered
\* 403, sends nothing and leaves state.actuators and state.override as they
\* were; a manual command that passed the guard has called send_command for
\* every field of the request when it answers.
C4_ManualGuard ==
    [][ /\ (http.pc = "idle" /\ ev'.by = "control" /\ mode = MODE_AUTO)
            => /\ ev'.k = "resp" /\ ev'.code = 403
               /\ http'.pc = "idle"
               /\ actuators' = actuators
               /\ override' = override
        /\ http'.pc = "control_resp" => http'.done = DOMAIN http'.data
      ]_vars
\* a manual command has just been refused while an actuator is believed on
C4_Witness ==
    /\ ev.k = "resp" /\ ev.by = "control" /\ ev.code = 403
    /\ \E a \in Actuators : actuators[a]

\* C5 (Spec): the policy sends no light, fan or pump-on command while the mode
\* is manual.
C5_NoStaleMode ==
    (PolicyCmd /\ (ev.act # "pump" \/ ev.on)) => mode # MODE_MANUAL

\* C6 (SpecSeq): hysteresis.  The policy sends a light (fan) command only when
\* the state the reading asks for differs from the belief, and the command is
\* that state; so a repeated reading after a successful command sends nothing.
C6_Hysteresis ==
    /\ (PolicyCmd /\ ev.act = "light")
           => ev.on # ev.was["light"] /\ ev.on = light_should_be_on(sensors["light"])
    /\ (PolicyCmd /\ ev.act = "fan")
           => ev.on # ev.was["fan"] /\ ev.on = fan_should_be_on(sensors["temp"])
\* the light rule has just been evaluated with the light already on as the
\* reading asks, and sent nothing
C6_Witness ==
    /\ mq.pc = "irrigation" /\ ev.k = "none"
    /\ sensors["light"] # None /\ light_should_be_on(sensors["light"])
    /\ actuators["light"]

\* C7 (SpecSend): send_command returns True when publish returned, and then
\* the belief of the actuator is the commanded value and sending the same
\* command again would not change it; it returns False when publish raised,
\* when there is no client and when the actuator is unknown, and then the
\* belief is what it was.
C7_SendCommand ==
    ev.k = "cmd" =>
        /\ ev.pub = "ok" => /\ ev.ok
                            /\ actuators = [ev.was EXCEPT ![ev.act] = ev.on]
                            /\ send_command_belief(actuators, ev.act, ev.on, TRUE) = actuators
        /\ (ev.pub = "raised" \/ mqtt_client = "None" \/ ev.act \notin Actuators)
               => ~ev.ok /\ actuators = ev.was
\* publish raised for a command that would have changed the belief
C7_Witness ==
    /\ ev.k = "cmd" /\ ev.pub = "raised"
    /\ ev.act \in Actuators /\ ev.on # ev.was[ev.act]

\* C8 (Spec): the pump-off that follows a pump-on of the policy is published,
\* and the cooldown is then counted from the trigger time.
C8_NeverLeftRunning ==
    /\ (PolicyCmd /\ ev.act = "pump" /\ ~ev.on /\ mq.current_time \in pump_log)
           => ev.pub = "ok"
    /\ (mq.pc \in {"cooling", "fan_cmd"} /\ mq.current_time \in pump_log)
           => last_watering = mq.current_time

\* C9 (Spec): from the moment the policy has sent pump-on, before the pump-off
\* is sent, state.last_watering is the trigger time.
C9_CooldownSetAtActivation ==
    (mq.pc \in {"sleep", "pump_off"} /\ mq.current_time \in pump_log)
        => last_watering = mq.current_time

\* where the network thread is while auto_control runs
PolicyPcs == {"auto_control", "light", "light_cmd", "irrigation", "pump_on",
              "sleep", "pump_off", "last_watering", "cooling", "fan_cmd"}
\* the network thread takes the next message, of any topic
Ingest ==
    \/ \E data \in ConcSensorMsgs : on_sensors(data) /\ UNCHANGED uplink
    \/ \E p \in StatusPayloads : on_esp32_status(p) /\ UNCHANGED uplink
    \/ \E p \in ModePayloads : on_mode(p) /\ UNCHANGED inbox
\* C10 (Spec): while auto_control is running, its watering cycle included, the
\* next inbound message can be routed and applied.
C10_IngestNotStalled ==
    (mqtt_client = "client" /\ mq.pc \in PolicyPcs) => ENABLED Ingest

\* C11 (SpecSeq): in auto or hybrid mode auto_control returns before its rules
\* exactly when the temp or the moisture reading has never been reported; with
\* both present, whatever their values, it goes on to the rules.
C11_PolicyPrecondition ==
    [][ (mq.pc = "auto_control" /\ mq'.pc # "auto_control" /\ mode # MODE_MANUAL)
            => (mq'.pc = "idle"
                   <=> (sensors["temp"] = None \/ sensors["moisture"] = None))
      ]_vars

\* the beliefs the threshold rules ask for, given the readings
ThresholdBeliefs(belief, s) ==
    /\ s["light"] # None => belief["light"] = light_should_be_on(s["light"])
    /\ belief["fan"] = fan_should_be_on(s["temp"])
\* a step of the policy whose command, if it sent one, was published
Published == ev'.k = "cmd" => ev'.pub = "ok"
\* the rules were evaluated: the light rule leaves the belief the reading asks
\* for, nothing after it touches that belief, and so does the cooling rule
RulesEvaluated ==
    /\ (mq.pc \in {"light", "light_cmd"} /\ mq'.pc = "irrigation" /\ Published
        /\ sensors["light"] # None)
           => actuators'["light"] = light_should_be_on(sensors["light"])
    /\ (mq.pc \in PolicyPcs \ {"light", "light_cmd"})
           => actuators'["light"] = actuators["light"]
    /\ (mq.pc \in {"cooling", "fan_cmd"} /\ mq'.pc = "idle" /\ Published)
           => actuators'["fan"] = fan_should_be_on(sensors["temp"])
\* auto_control returned at its sensor test although both readings are present
RulesSkipped ==
    (/\ mq.pc = "auto_control" /\ mq'.pc = "idle" /\ mode # MODE_MANUAL
     /\ sensors["temp"] # None /\ sensors["moisture"] # None)
        => ThresholdBeliefs(actuators', sensors)
\* C12 (SpecSeq): once a sensor update with temp and moisture present has been
\* processed in auto or hybrid mode, with no override and every publish
\* successful, the light belief is (light < LIGHT_THRESHOLD) when light is
\* present and the fan belief is (temp > TEMP_THRESHOLD).
C12_ThresholdRules == [][RulesEvaluated /\ RulesSkipped]_vars

\* the last pump-on the policy attempted was not published: last_watering is
\* the trigger time of the last attempt, pump_log holds the published ones
LastPumpOnFailed == last_watering # 0 /\ last_watering \notin pump_log
\* a failed command of the policy is not repeated within the cycle and leaves
\* the belief as it was, and the light and cooling rules send their command
\* whenever the reading asks for a state that differs from the belief
LevelTriggered ==
    /\ (ev'.k = "cmd" /\ ev'.by = "policy" /\ ~ev'.ok)
           => actuators' = actuators /\ mq'.pc # mq.pc
    /\ (/\ mq.pc = "light" /\ sensors["light"] # None /\ ~override["light"]
        /\ actuators["light"] # light_should_be_on(sensors["light"]))
           => mq'.pc = "light_cmd" /\ mq'.want = light_should_be_on(sensors["light"])
    /\ (/\ mq.pc = "cooling" /\ ~override["fan"]
        /\ actuators["fan"] # fan_should_be_on(sensors["temp"]))
           => mq'.pc = "fan_cmd" /\ mq'.want = fan_should_be_on(sensors["temp"])
\* the irrigation rule is reached with dry soil after a pump-on that failed
PumpOnRetried ==
    (/\ mq.pc = "irrigation" /\ soil_is_dry(sensors["moisture"])
     /\ ~override["pump"] /\ LastPumpOnFailed)
        => mq'.pc = "pump_on"
\* C13 (SpecSeq): a light, fan or pump-on command of the policy whose publish
\* failed is not retried in a loop, and is attempted again in the next cycle
\* whose readings still ask for it.
C13_LevelTriggered == [][LevelTriggered /\ PumpOnRetried]_vars

\* C14 (Spec): when a manual command called send_command and it returned False
\* (as it does for every call while there is no client), the answer to the
\* request is not {status: ok}.
C14_ManualFailureSurfaced ==
    [][ (http.pc = "control_resp" /\ http.done # {} /\ mqtt_client = "None")
            => ~(ev'.k = "resp" /\ ev'.by = "control" /\ ev'.code = 200)
      ]_vars

\* C15 (SpecSeq): a sensor message whose payload is not a JSON object is
\* dropped: no step of its handling changes readings, liveness, beliefs, mode
\* or override flags, auto_control is not run and nothing is published.
C15_NotObjectDropped ==
    [][ ((ev'.k = "msg" /\ ev'.by = "sensors" /\ ev'.from # "")
            \/ mq.pc = "online_array")
            => shared' = shared /\ mq'.pc \notin PolicyPcs /\ ev'.k # "cmd"
      ]_vars
\* C16 (Spec): a mode message or a change-mode request whose value is not one
\* of manual, auto, hybrid changes nothing: the message is dropped, the request
\* is answered 400, state.mode and state.override stay as they were and the
\* handler returns without publishing.
C16_InvalidModeRejected ==
    [][ (ev'.k \in {"mode", "nomode"} /\ ev'.to \notin Modes)
            => /\ ev'.k = "nomode"
               /\ shared' = shared
               /\ mq' = mq /\ http' = http
               /\ ev'.by = "http" => ev'.code = 400
      ]_vars
\* a change-mode request with an unknown mode has just been refused while an
\* override flag is set
C16_Witness ==
    /\ ev.k = "nomode" /\ ev.by = "http" /\ ev.code = 400 /\ ev.to \notin Modes
    /\ override # NoFlags /\ mode = MODE_HYBRID

\* C17 (SpecMerge): a sensor message is merged into the readings: every field of
\* the message holds the message's value afterwards, every other field keeps
\* its value, and a reading that was present is still present.
C17_Merged ==
    [][ \A data \in MergeSensorMsgs :
            on_sensors(data) =>
                \A f \in SensorFields :
                    /\ f \in DOMAIN data => sensors'[f] = data[f]
                    /\ f \notin DOMAIN data => sensors'[f] = sensors[f]
                    /\ sensors[f] # None => sensors'[f] # None
      ]_vars

\* C18 (SpecSeq): a status message sets the liveness of its node to
\* (payload = "online") and leaves the other node's liveness as it was; from
\* the moment a well-formed sensor message has been stored and marked, the
\* sensor node is live.
C18_Liveness ==
    [][ /\ \A p \in StatusPayloads :
              /\ on_esp32_status(p)
                     => esp32_online' = (p = "online") /\ camera_online' = camera_online
              /\ on_camera_status(p)
                     => camera_online' = (p = "online") /\ esp32_online' = esp32_online
        /\ mq.pc \in PolicyPcs => esp32_online'
      ]_vars
\* a status message that is not "online" has just marked the sensor node as
\* not live, after readings had arrived, while the camera stays live
C18_Witness ==
    /\ ev.k = "msg" /\ ev.by = "esp32_status"
    /\ ~esp32_online /\ camera_online /\ sensors["temp"] # None

\* the alerts a sequence of results asks for, one result after the other
RECURSIVE AllAlerts(_)
AllAlerts(results) ==
    IF results = <<>> THEN <<>>
    ELSE alerts_of(Head(results)) \o AllAlerts(Tail(results))
\* the last n elements of a sequence
Last(seq, n) == SubSeq(seq, Len(seq) - n + 1, Len(seq))
\* with a client and no publish raising, the handler reaches its return with
\* the alerts of its result published last
EmittedWhenPublished ==
    (det.pc = "resp" /\ det.result.error = "" /\ mqtt_client = "client")
        => /\ Len(alerts) >= Len(alerts_of(det.result))
           /\ Last(alerts, Len(alerts_of(det.result))) = alerts_of(det.result)
HandlingError == det.pc # "idle" /\ det.result.error # ""
\* C20 (SpecDetect): a request with an empty body, with bytes that are not an
\* image or on which the detector failed publishes no alert and leaves every
\* field of state.detection as it was, at each step of its handling.
C20_ErrorKeepsDetection ==
    [][ (\/ ev'.k = "resp" /\ ev'.by = "detect" /\ ev'.code = 400
         \/ HandlingError
         \/ HandlingError')
            => detection' = detection /\ alerts' = alerts
      ]_vars
\* an error result is about to be returned while state.detection holds an
\* earlier finding for which alerts were published
C20_Witness ==
    /\ det.pc = "resp" /\ det.result.error = "Invalid image"
    /\ detection.pest /\ detection.timestamp # None /\ alerts # <<>>

\* C21 (SpecDetect): detect_endpoint answers 400 for an empty body and 500
\* for a body whose result is an error (bytes that cannot be decoded); it
\* answers 200 only when detect_objects gave a detection.
C21_DetectResponses ==
    [][ /\ detect_endpoint("empty")
               => ev'.k = "resp" /\ ev'.by = "detect" /\ ev'.code = 400
        /\ (ev'.k = "resp" /\ ev'.by = "detect" /\ HandlingError) => ev'.code = 500
        /\ (ev'.k = "resp" /\ ev'.by = "detect" /\ ev'.code = 200)
               => det.pc # "idle" /\ det.result.error = ""
      ]_vars

\* C22 (SpecStatus): what a status query returns is the reported state as it
\* was at one instant between the start of the query and its answer.
C22_AtomicSnapshot == st.pc = "jsonify" => Snapshot \in seen

\* the step handles a status message or a mode message
StatusOrModeMessage ==
    \/ ev'.k = "msg" /\ ev'.by \in {"esp32_status", "camera_status"}
    \/ ev'.k \in {"mode", "nomode", "clear"} /\ ev'.by = "mqtt"
\* C23 (SpecSeq): state.actuators changes only in a call of send_command that
\* published, and only in the entry of the commanded actuator; handling a
\* status message or a mode message sends no command, does not run the policy
\* and leaves state.actuators and state.sensors as they were.
C23_BeliefFrame ==
    [][ /\ actuators' # actuators
               => /\ ev'.k = "cmd" /\ ev'.pub = "ok"
                  /\ actuators' = [actuators EXCEPT ![ev'.act] = ev'.on]
        /\ StatusOrModeMessage
               => /\ actuators' = actuators /\ sensors' = sensors
                  /\ mq'.pc \notin PolicyPcs
      ]_vars
\* a mode message has just been applied while the fan is believed on and
\* readings are stored
C23_Witness ==
    /\ ev.k = "clear" /\ ev.by = "mqtt"
    /\ actuators["fan"] /\ sensors["temp"] # None

\* a mode change has assigned state.mode and not yet replaced state.override
ModeChangeAtWork == mq.pc = "mode_clear" \/ http.pc = "mode_clear"
\* C24 (Spec): whenever an override flag is set the mode is hybrid, in every
\* state in which no mode change is between its two assignments.
C24_OverrideOnlyInHybrid ==
    (~ModeChangeAtWork /\ \E a \in Actuators : override[a]) => mode = MODE_HYBRID

\* C25 (SpecLooped): with no other party on the mode topic, a flag the
\* operator has set is not cleared by the network thread: the gateway's own
\* announcement, when it comes back, leaves it set.
C25_OwnAnnouncementKeepsOverride ==
    [][ mq.pc = "mode_clear" => \A a \in Actuators : override[a] => override'[a] ]_vars


\* C26 (Spec): a change-mode request that is not answered {status: ok} leaves
\* state.mode and state.override as they were when the request arrived: an
\* invalid mode is answered 400 in a step that changes neither, and when the
\* answer is 500 (no MQTT client, or publish raised) mode and override are
\* what they were at the arrival of the request.
C26_FailedModeRequestChangesNothing ==
    [][ /\ (ev'.k = "nomode" /\ ev'.by = "http")
               => mode' = mode /\ override' = override
        /\ (http.pc = "mode_publish" /\ ev'.k = "resp" /\ ev'.by = "mode"
            /\ ev'.code # 200)
               => <<mode', override'>> = http.was
      ]_vars


\* C27 (SpecManual): in hybrid mode, when a manual command request is answered
\* {status: ok}, every one of fan and light that it commanded with a
\* successful publish has the commanded value in state.actuators and its
\* override flag set, whatever the policy did in the network thread meanwhile.
C27_ManualCommandHolds ==
    [][ (http.pc = "control_resp" /\ ev'.k = "resp" /\ ev'.by = "control"
         /\ ev'.code = 200 /\ mode = MODE_HYBRID)
            => \A a \in http.sent \cap {"fan", "light"} :
                   actuators'[a] = http.data[a] /\ override'[a]
      ]_vars


\* C28 (SpecCycle): while the node is connected and in its publish loop, its
\* last cycle has published sensor data and then its status, and the gateway
\* has handled every message the node has published, in order,
\* state.esp32_online is true: it is false only once "offline" was published.
C28_OnlineWhileNodePublishes ==
    (node.connected /\ node.pc \in NodeLoop /\ node.has_data /\ uplink = <<>>
     /\ mq.pc = "idle" /\ mqtt_client = "client")
        => esp32_online


\* C29 (SpecBelief): with the node subscribed before the first command and
\* every published command delivered in order, whenever no command is on its
\* way the node's pump_state, fan_state and light_state equal
\* state.actuators of the gateway ("on" is true and "off" is false on the node).
C29_BeliefMatchesNode ==
    (node.connected /\ node.pc \in NodeLoop /\ downlink = <<>>)
        => /\ node.pump_state = actuators["pump"]
           /\ node.fan_state = actuators["fan"]
           /\ node.light_state = actuators["light"]
\* the node has carried out the commands that switched pump and fan on, and
\* none is on its way
C29_Witness ==
    /\ node.connected /\ node.pc \in NodeLoop /\ downlink = <<>>
    /\ node.pump_state /\ actuators["pump"]
    /\ node.fan_state /\ actuators["fan"]
    /\ ~node.light_state
====
